---- MODULE Spec2Model ----
(***************************************************************************)
(* Model of the word-search puzzle service (services/geminiService):       *)
(*   - validateAndCorrectPuzzleData, the response validator / corrector,   *)
(*     as a pure operator computed the way the code computes it;           *)
(*   - generateWordSearch, the bounded retry loop around the generator.    *)
(*                                                                         *)
(* A JavaScript string is modelled as the sequence of its UTF-16 code      *)
(* units, each unit a one-element token ("a", "B", ...).  Rows and columns *)
(* are 0-indexed as in the code; TLA+ sequences are 1-indexed, hence the   *)
(* "+ 1" in every sequence access.                                         *)
(***************************************************************************)
EXTENDS Integers, Sequences, FiniteSets, TLC

VARIABLES
    data,         \* the candidate handed to the validator
    size,         \* the requested grid size
    result,       \* what validateAndCorrectPuzzleData(data, size) did
    again,        \* what validating the returned puzzle once more did
    vpc,          \* "candidate", "validated", "revalidated"
    pc,           \* generateWordSearch: "idle", "awaiting", "Succeeded", "Exhausted"
    attempt,      \* the loop counter of line 205
    calls,        \* generateContent invocations so far
    outstanding,  \* generateContent promises not yet settled
    response,     \* the last settled generator response
    lastError,    \* line 185
    warnings,     \* "Attempt n failed" warnings logged (line 228)
    returned,     \* the puzzle the promise of generateWordSearch resolved with
    overlay       \* WordSearchGrid.highlightedCells: the walk and its cellMap

vars == <<data, size, result, again, vpc,
          pc, attempt, calls, outstanding, response, lastError, warnings, returned,
          overlay>>

validatorVars == <<data, size, result, again, vpc>>
retryVars == <<pc, attempt, calls, outstanding, response, lastError, warnings, returned>>

----------------------------------------------------------------------------
(* Bounds of the model *)

GridSize == 3

\* Line 184
MAX_RETRIES == 3

----------------------------------------------------------------------------
(* Strings *)

\* The code unit U+00DF (LATIN SMALL LETTER SHARP S), one UTF-16 unit.
Eszett == "sz"

\* A grid entry that is not a string (a JSON number); typeof is not 'string'.
NotAString == <<"number">>

TypeOfIsString(cell) == cell # NotAString

\* String.prototype.toUpperCase on one code unit: the full Unicode mapping,
\* under which U+00DF upper-cases to the two units "SS".
UpperOfUnit(u) ==
    CASE u = "a" -> <<"A">>
      [] u = "b" -> <<"B">>
      [] u = "c" -> <<"C">>
      [] u = "x" -> <<"X">>
      [] u = Eszett -> <<"S", "S">>
      [] OTHER -> <<u>>

RECURSIVE ToUpperCase(_)
ToUpperCase(s) ==
    IF s = <<>> THEN <<>> ELSE UpperOfUnit(Head(s)) \o ToUpperCase(Tail(s))

\* word[i] for a 0-based index i inside the word: a one-unit string.
CharAt(word, i) == <<word[i + 1]>>

----------------------------------------------------------------------------
(* Arithmetic helpers: Math.abs, Math.max, Math.sign *)

Abs(x) == IF x < 0 THEN -x ELSE x
Max(a, b) == IF a > b THEN a ELSE b
Sign(x) == IF x > 0 THEN 1 ELSE IF x < 0 THEN -1 ELSE 0

----------------------------------------------------------------------------
(* validateAndCorrectPuzzleData *)

\* A thrown validation Error, with the values its message interpolates.
Failure(kind, word, other, row, col) ==
    [kind |-> kind, word |-> word, other |-> other, row |-> row, col |-> col]

\* Nothing thrown so far.
NoError == Failure("none", <<>>, <<>>, 0, 0)

\* The returned puzzle { ...data, grid: correctedGrid }.
Success(d, grid) ==
    [kind |-> "ok",
     puzzle |-> [grid |-> grid, solution |-> d.solution, wordsUsed |-> d.wordsUsed]]

\* Mutant of RowOk: the entries are not looked at, only the row length.
RowOk_LengthOnly(row, n) == Len(row) = n

\* Line 117: the grid is size x size single-character strings.
RowOk(row, n) ==
    /\ Len(row) = n
    /\ \A j \in 1..Len(row) : TypeOfIsString(row[j]) /\ Len(row[j]) = 1

ShapeOk(grid, n) ==
    /\ Len(grid) = n
    /\ \A i \in 1..Len(grid) : RowOk(grid[i], n)

\* Mutant of CornerStart: the end column is tested instead of the start column.
CornerStart_EndCol(sol) == sol.startRow = 0 /\ sol.endCol = 0

\* Line 127: the placement starts at the top-left corner.
CornerStart(sol) == sol.startRow = 0 /\ sol.startCol = 0

\* Line 131: wordsUsed.includes(word)
Includes(wordsUsed, word) == \E k \in 1..Len(wordsUsed) : wordsUsed[k] = word

\* Lines 135-138
OutOfBounds(sol, n) ==
    \/ sol.startRow < 0 \/ sol.startRow >= n \/ sol.startCol < 0 \/ sol.startCol >= n
    \/ sol.endRow < 0 \/ sol.endRow >= n \/ sol.endCol < 0 \/ sol.endCol >= n

\* Mutant of ExpectedLength: Math.min in place of Math.max.
ExpectedLength_Min(sol) ==
    LET dr == Abs(sol.endRow - sol.startRow)
        dc == Abs(sol.endCol - sol.startCol)
    IN  (IF dr < dc THEN dr ELSE dc) + 1

\* Line 142
ExpectedLength(sol) ==
    Max(Abs(sol.endRow - sol.startRow), Abs(sol.endCol - sol.startCol)) + 1

\* occupiedCells.has(`${r}-${c}`)
Occupied(occ, r, c) == \E o \in occ : o.row = r /\ o.col = c
Occupant(occ, r, c) == CHOOSE o \in occ : o.row = r /\ o.col = c

\* correctedGrid[r][c] is readable: outside the grid correctedGrid[r] or
\* correctedGrid[r][c] is undefined and .toUpperCase() throws a TypeError.
InGrid(grid, r, c) ==
    /\ r >= 0 /\ r < Len(grid)
    /\ c >= 0 /\ c < Len(grid[r + 1])

\* Lines 167-169: correct the grid on the fly.
Repair(grid, r, c, expectedChar) ==
    IF ToUpperCase(grid[r + 1][c + 1]) # expectedChar
    THEN [grid EXCEPT ![r + 1][c + 1] = expectedChar]
    ELSE grid

\* Mutant of Walk: a cell claimed twice is an error only when the two
\* expected letters differ.
RECURSIVE Walk_AgreeingAllowed(_, _, _, _, _, _, _)
Walk_AgreeingAllowed(word, i, r, c, dRow, dCol, st) ==
    IF i >= Len(word) THEN st
    ELSE LET expectedChar == ToUpperCase(CharAt(word, i)) IN
         IF Occupied(st.occ, r, c) /\ Occupant(st.occ, r, c).expectedChar # expectedChar
         THEN [st EXCEPT !.err =
                  Failure("intersection", word, Occupant(st.occ, r, c).word, r + 1, c + 1)]
         ELSE IF ~InGrid(st.grid, r, c)
         THEN [st EXCEPT !.err = Failure("TypeError", word, <<>>, r, c)]
         ELSE Walk_AgreeingAllowed(word, i + 1, r + dRow, c + dCol, dRow, dCol,
                   [grid |-> Repair(st.grid, r, c, expectedChar),
                    occ |-> { o \in st.occ : o.row # r \/ o.col # c } \cup
                            {[row |-> r, col |-> c, word |-> word,
                              expectedChar |-> expectedChar]},
                    err |-> st.err])

\* Lines 152-173: the cell-by-cell walk of one placement, from index i at
\* cell (r, c).  st is [grid, occ, err]; err is NoError or the Failure thrown.
RECURSIVE Walk(_, _, _, _, _, _, _)
Walk(word, i, r, c, dRow, dCol, st) ==
    IF i >= Len(word) THEN st
    ELSE LET expectedChar == ToUpperCase(CharAt(word, i)) IN
         IF Occupied(st.occ, r, c)
         THEN [st EXCEPT !.err =
                  Failure("intersection", word, Occupant(st.occ, r, c).word, r + 1, c + 1)]
         ELSE IF ~InGrid(st.grid, r, c)
         THEN [st EXCEPT !.err = Failure("TypeError", word, <<>>, r, c)]
         ELSE Walk(word, i + 1, r + dRow, c + dCol, dRow, dCol,
                   [grid |-> Repair(st.grid, r, c, expectedChar),
                    occ |-> st.occ \cup
                            {[row |-> r, col |-> c, word |-> word,
                              expectedChar |-> expectedChar]},
                    err |-> st.err])

\* Lines 125-173: the body of the loop for one placement.
CheckPlacement(sol, wordsUsed, n, st) ==
    IF CornerStart(sol)
    THEN [st EXCEPT !.err = Failure("corner", sol.word, <<>>, 0, 0)]
    ELSE IF ~Includes(wordsUsed, sol.word)
    THEN [st EXCEPT !.err = Failure("crossref", sol.word, <<>>, 0, 0)]
    ELSE IF OutOfBounds(sol, n)
    THEN [st EXCEPT !.err = Failure("bounds", sol.word, <<>>, 0, 0)]
    ELSE IF ExpectedLength(sol) # Len(sol.word)
    THEN [st EXCEPT !.err =
             Failure("length", sol.word, <<>>, ExpectedLength(sol), Len(sol.word))]
    ELSE Walk(sol.word, 0, sol.startRow, sol.startCol,
              Sign(sol.endRow - sol.startRow), Sign(sol.endCol - sol.startCol), st)

\* Line 124: for (const sol of solution), stopping at the first throw.
RECURSIVE ForEachSolution(_, _, _, _, _)
ForEachSolution(solution, k, wordsUsed, n, st) ==
    IF k > Len(solution) \/ st.err # NoError THEN st
    ELSE ForEachSolution(solution, k + 1, wordsUsed, n,
                         CheckPlacement(solution[k], wordsUsed, n, st))

\* Lines 113-174: the run of the function up to its return or throw, as the
\* final [grid, occ, err]: grid is correctedGrid as the run leaves it.
ValidationRun(d, n) ==
    LET correctedGrid == d.grid IN
    IF ~ShapeOk(correctedGrid, n)
    THEN [grid |-> correctedGrid, occ |-> {}, err |-> Failure("shape", <<>>, <<>>, n, n)]
    ELSE ForEachSolution(d.solution, 1, d.wordsUsed, n,
                         [grid |-> correctedGrid, occ |-> {}, err |-> NoError])

\* What the run hands to the caller: the thrown Error or the puzzle of line 176.
OutcomeOf(d, st) == IF st.err # NoError THEN st.err ELSE Success(d, st.grid)

\* Lines 113-177
validateAndCorrectPuzzleData(d, n) == OutcomeOf(d, ValidationRun(d, n))

\* Mutant of CopiedRows: correctedGrid shares every row array with the
\* caller's grid (a shallow [...grid], or no copy at all).
CopiedRows_None(grid) == {}

\* Line 115: grid.map(row => [...row]) makes a new array of every row; the
\* rows (1-based) of correctedGrid that are not the caller's own arrays.
CopiedRows(grid) == 1..Len(grid)

\* The caller's grid object once the call has returned or thrown: a row that
\* correctedGrid shares with it shows every repair written until then.
CallerGridAfter(d, st) ==
    [i \in 1..Len(d.grid) |-> IF i \in CopiedRows(d.grid) THEN d.grid[i] ELSE st.grid[i]]

----------------------------------------------------------------------------
(* Inputs: the candidate puzzles a generator response can hold *)

\* Words of two and three code units in mixed case, one holding U+00DF.
Words == { <<"a", Eszett>>, <<"c", "A", "b">> }

Coords == 0..(GridSize - 1)

\* Every placement record over the grid's coordinates, straight or not,
\* of the right length or not, corner starts included.
Placements ==
    [word : Words, startRow : Coords, startCol : Coords, endRow : Coords, endCol : Coords]

\* The same with coordinates that can lie one outside [0, GridSize).
WidePlacements ==
    [word : Words, startRow : -1..GridSize, startCol : -1..GridSize,
     endRow : -1..GridSize, endCol : -1..GridSize]

\* No placement, one placement anywhere, or two placements inside the grid.
Solutions ==
    {<<>>} \cup { <<p>> : p \in WidePlacements }
           \cup { <<p, q>> : p \in Placements, q \in Placements }

\* wordsUsed: every word, or a list that lacks one of them.
WordLists == { << <<"a", Eszett>>, <<"c", "A", "b">> >>, << <<"c", "A", "b">> >> }

Fill == <<"a">>

UniformGrid(fill, rows, cols) == [i \in 1..rows |-> [j \in 1..cols |-> fill]]

\* The grid of the right shape filled with one letter.
CleanGrid == UniformGrid(Fill, GridSize, GridSize)

\* What a grid entry can be: a one-unit string, the empty string, a two-unit
\* string, or a value that is no string.
CellValues == { <<"A">>, <<"b">>, <<"C">>, <<Eszett>>, <<>>, <<"a", "b">>, NotAString }

\* Grids with one entry replaced, one row too many or too few, or one row
\* one entry too long or too short.
EditedGrids ==
    { [CleanGrid EXCEPT ![i][j] = v] : i \in 1..GridSize, j \in 1..GridSize, v \in CellValues }
    \cup { UniformGrid(Fill, rows, GridSize) : rows \in {GridSize - 1, GridSize + 1} }
    \cup { [CleanGrid EXCEPT ![i] = [j \in 1..cols |-> Fill]] :
              i \in 1..GridSize, cols \in {GridSize - 1, GridSize + 1} }

Candidates ==
    [grid : {CleanGrid}, solution : Solutions, wordsUsed : WordLists]
    \cup [grid : EditedGrids, solution : {<<>>} \cup { <<p>> : p \in Placements },
          wordsUsed : WordLists]

\* A value for variables that hold nothing yet.
None == [kind |-> "none"]

\* The solution overlay before showSolution is set: no walk, an empty map.
OverlayHidden == [pc |-> "hidden", index |-> 0, r |-> 0, c |-> 0, cellMap |-> {}]

----------------------------------------------------------------------------
(* The validator applied to a candidate, and again to what it returned *)

ValidatorInit ==
    /\ data \in Candidates
    /\ size = GridSize
    /\ result = None
    /\ again = None
    /\ vpc = "candidate"
    /\ pc = "idle" /\ attempt = 0 /\ calls = 0 /\ outstanding = 0
    /\ response = None /\ lastError = None /\ warnings = 0 /\ returned = None
    /\ overlay = OverlayHidden

\* The call validateAndCorrectPuzzleData(data, size): its outcome, and the
\* caller's candidate as the call leaves it.
Validate ==
    /\ vpc = "candidate"
    /\ LET st == ValidationRun(data, size) IN
       /\ result' = OutcomeOf(data, st)
       /\ data' = [data EXCEPT !.grid = CallerGridAfter(data, st)]
    /\ vpc' = "validated"
    /\ UNCHANGED <<size, again>>
    /\ UNCHANGED retryVars
    /\ UNCHANGED overlay

Revalidate ==
    /\ vpc = "validated"
    /\ result.kind = "ok"
    /\ LET st == ValidationRun(result.puzzle, size) IN
       /\ again' = OutcomeOf(result.puzzle, st)
       /\ result' = [result EXCEPT !.puzzle.grid = CallerGridAfter(result.puzzle, st)]
    /\ vpc' = "revalidated"
    /\ UNCHANGED <<data, size>>
    /\ UNCHANGED retryVars
    /\ UNCHANGED overlay

ValidatorNext == Validate \/ Revalidate

ValidatorSpec == ValidatorInit /\ [][ValidatorNext]_vars

----------------------------------------------------------------------------
(* WordSearchGrid.highlightedCells: the solution overlay of a returned puzzle *)

\* Lines 22-28: forEach reaches the placement with 0-based index k, or is
\* through with the solution and the callback returns cellMap.
EnterPlacement(solution, k, cellMap) ==
    IF k >= Len(solution)
    THEN [pc |-> "done", index |-> k, r |-> 0, c |-> 0, cellMap |-> cellMap]
    ELSE [pc |-> "walking", index |-> k,
          r |-> solution[k + 1].startRow, c |-> solution[k + 1].startCol,
          cellMap |-> cellMap]

\* Line 30: cellMap.set(`${r}-${c}`, color); the colour stands for the
\* placement's index.
CellMapSet(cellMap, r, c, index) ==
    { e \in cellMap : e.row # r \/ e.col # c } \cup {[row |-> r, col |-> c, index |-> index]}

\* The walk is followed up to one cell outside the grid; the loop of line 29
\* itself has no such limit.
Followed(r, c, n) == r \in -1..n /\ c \in -1..n

\* Lines 18-28: showSolution becomes true for the puzzle the validator
\* returned and the memo callback starts on the first placement.
ShowSolution ==
    /\ vpc = "validated"
    /\ result.kind = "ok"
    /\ overlay.pc = "hidden"
    /\ overlay' = EnterPlacement(result.puzzle.solution, 0, {})
    /\ UNCHANGED validatorVars
    /\ UNCHANGED retryVars

\* Lines 29-34: one iteration of while (true).
HighlightStep ==
    /\ overlay.pc = "walking"
    /\ Followed(overlay.r, overlay.c, size)
    /\ LET sol == result.puzzle.solution[overlay.index + 1]
           dRow == Sign(sol.endRow - sol.startRow)
           dCol == Sign(sol.endCol - sol.startCol)
           cellMap == CellMapSet(overlay.cellMap, overlay.r, overlay.c, overlay.index)
       IN  overlay' =
              IF overlay.r = sol.endRow /\ overlay.c = sol.endCol
              THEN EnterPlacement(result.puzzle.solution, overlay.index + 1, cellMap)
              ELSE [overlay EXCEPT !.r = overlay.r + dRow, !.c = overlay.c + dCol,
                                   !.cellMap = cellMap]
    /\ UNCHANGED validatorVars
    /\ UNCHANGED retryVars

OverlayNext == Validate \/ ShowSolution \/ HighlightStep

OverlaySpec == ValidatorInit /\ [][OverlayNext]_vars

----------------------------------------------------------------------------
(* generateWordSearch: the bounded retry loop *)

\* The candidates the generator answers with in the retry model.
GeneratedCandidates ==
    [grid : {CleanGrid},
     solution : {<<>>} \cup { <<p>> : p \in { q \in Placements : q.startRow = 1 /\ q.endRow <= 1 } },
     wordsUsed : WordLists]
    \cup [grid : { UniformGrid(Fill, GridSize + 1, GridSize) }, solution : {<<>>},
          wordsUsed : WordLists]

\* What a settled generateContent promise can carry: text that is no JSON,
\* JSON lacking one of grid / solution / wordsUsed, or a candidate puzzle.
GeneratorResponses ==
    { [kind |-> k, data |-> None] : k \in {"unparseable", "incomplete"} }
    \cup { [kind |-> "puzzle", data |-> d] : d \in GeneratedCandidates }

Rejected == [kind |-> "rejected", data |-> None]

\* Mutant of AttemptOutcome: the parsed data is returned without validation.
AttemptOutcome_Unvalidated(resp, n) ==
    IF resp.kind = "unparseable"
    THEN Failure("SyntaxError", <<>>, <<>>, 0, 0)
    ELSE IF resp.kind = "incomplete"
    THEN Failure("structure", <<>>, <<>>, 0, 0)
    ELSE Success(resp.data, resp.data.grid)

\* Lines 217-225: parse, structure check, validation of one response.
AttemptOutcome(resp, n) ==
    IF resp.kind = "unparseable"
    THEN Failure("SyntaxError", <<>>, <<>>, 0, 0)
    ELSE IF resp.kind = "incomplete"
    THEN Failure("structure", <<>>, <<>>, 0, 0)
    ELSE validateAndCorrectPuzzleData(resp.data, n)

\* Mutant of LastAttempt: the loop is left one attempt early.
LastAttempt_OneEarly(a) == a = MAX_RETRIES - 1

\* Line 229: the attempt that just failed was the last one.
LastAttempt(a) == a = MAX_RETRIES

\* Line 205: the loop condition.
LoopContinues(a) == a <= MAX_RETRIES

\* Lines 226-237: the catch block, then either the next iteration up to its
\* await (a new generateContent call) or the terminal error.
Catch(error) ==
    /\ lastError' = error
    /\ warnings' = warnings + 1
    /\ returned' = returned
    /\ IF LastAttempt(attempt) \/ ~LoopContinues(attempt + 1)
       THEN /\ pc' = "Exhausted"
            /\ outstanding' = outstanding - 1
            /\ UNCHANGED <<attempt, calls>>
       ELSE /\ attempt' = attempt + 1
            /\ calls' = calls + 1
            /\ outstanding' = (outstanding - 1) + 1
            /\ pc' = "awaiting"

RetryInit ==
    /\ pc = "idle" /\ attempt = 0 /\ calls = 0 /\ outstanding = 0
    /\ response = None /\ lastError = None /\ warnings = 0 /\ returned = None
    /\ overlay = OverlayHidden
    /\ size = GridSize
    /\ data = None /\ result = None /\ again = None /\ vpc = "unused"

\* Lines 179-215: the call, up to the first await.
GenerateWordSearch ==
    /\ pc = "idle"
    /\ attempt' = 1
    /\ lastError' = None
    /\ calls' = calls + 1
    /\ outstanding' = outstanding + 1
    /\ pc' = "awaiting"
    /\ UNCHANGED <<response, warnings, returned>>
    /\ UNCHANGED validatorVars
    /\ UNCHANGED overlay

\* The awaited call fails (transport error): control enters the catch block.
AwaitRejects ==
    /\ pc = "awaiting"
    /\ response' = Rejected
    /\ Catch(Failure("transport", <<>>, <<>>, 0, 0))
    /\ UNCHANGED validatorVars
    /\ UNCHANGED overlay

\* The awaited call resolves: lines 217-225, then return or catch.
AwaitResolves(resp) ==
    /\ pc = "awaiting"
    /\ response' = resp
    /\ LET outcome == AttemptOutcome(resp, size) IN
       IF outcome.kind = "ok"
       THEN /\ returned' = outcome.puzzle
            /\ pc' = "Succeeded"
            /\ outstanding' = outstanding - 1
            /\ UNCHANGED <<attempt, calls, lastError, warnings>>
       ELSE Catch(outcome)
    /\ UNCHANGED validatorVars
    /\ UNCHANGED overlay

Settle == AwaitRejects \/ \E resp \in GeneratorResponses : AwaitResolves(resp)

Next == GenerateWordSearch \/ Settle

Spec == RetryInit /\ [][Next]_vars

\* Every generator call completes: the awaited promise settles.
FairSpec == Spec /\ WF_vars(Settle)

----------------------------------------------------------------------------
(* Vocabulary of the properties, stated from the candidate alone *)

\* The cell i unit steps from the start of a placement.
StepCell(sol, i) ==
    <<sol.startRow + i * Sign(sol.endRow - sol.startRow),
      sol.startCol + i * Sign(sol.endCol - sol.startCol)>>

\* The cells a placement lays claim to: one per code unit of its word.
ClaimedCells(sol) == { StepCell(sol, i) : i \in 0..(Len(sol.word) - 1) }

Chebyshev(sol) ==
    LET dr == sol.endRow - sol.startRow
        dc == sol.endCol - sol.startCol
    IN  IF Abs(dr) >= Abs(dc) THEN Abs(dr) ELSE Abs(dc)

IsOneCharString(cell) == cell # NotAString /\ Len(cell) = 1

WellShaped(grid, n) ==
    /\ Len(grid) = n
    /\ \A i \in 1..Len(grid) :
          /\ Len(grid[i]) = n
          /\ \A j \in 1..Len(grid[i]) : IsOneCharString(grid[i][j])

StartsAtCorner(sol) == sol.startRow = 0 /\ sol.startCol = 0

InsideGrid(sol, n) ==
    /\ sol.startRow \in 0..(n - 1) /\ sol.startCol \in 0..(n - 1)
    /\ sol.endRow \in 0..(n - 1) /\ sol.endCol \in 0..(n - 1)

GeometryLaw(sol) == Chebyshev(sol) + 1 = Len(sol.word)

\* The four per-placement checks of the validator pass.
PlacementPasses(sol, wordsUsed, n) ==
    /\ ~StartsAtCorner(sol)
    /\ \E k \in DOMAIN wordsUsed : wordsUsed[k] = sol.word
    /\ InsideGrid(sol, n)
    /\ GeometryLaw(sol)

\* Every claimed cell of the placement is a cell of the n x n grid.
WalkInside(sol, n) ==
    \A cell \in ClaimedCells(sol) : cell[1] \in 0..(n - 1) /\ cell[2] \in 0..(n - 1)

Share(s1, s2) == ClaimedCells(s1) \cap ClaimedCells(s2) # {}

SomeShare(solution) ==
    \E k1 \in DOMAIN solution, k2 \in DOMAIN solution : k1 < k2 /\ Share(solution[k1], solution[k2])

\* Horizontal, vertical or diagonal, the walk ending on the declared end.
StraightLine(sol) ==
    LET dr == sol.endRow - sol.startRow
        dc == sol.endCol - sol.startCol
    IN  /\ dr = 0 \/ dc = 0 \/ Abs(dr) = Abs(dc)
        /\ StepCell(sol, Len(sol.word) - 1) = <<sol.endRow, sol.endCol>>

\* The candidate is valid in the sense of C1.
ValidCandidate(d, n) ==
    /\ WellShaped(d.grid, n)
    /\ \A k \in DOMAIN d.solution : PlacementPasses(d.solution[k], d.wordsUsed, n)
    /\ ~SomeShare(d.solution)

Validated == vpc # "candidate"

ClassifiedErrors == {"shape", "corner", "crossref", "bounds", "length", "intersection"}

----------------------------------------------------------------------------
(* Properties of validateAndCorrectPuzzleData *)

\* C1: for every valid candidate (right shape, no corner start, words in
\* wordsUsed, coordinates in the grid, max(|dRow|,|dCol|)+1 = word length, no
\* shared cell) the validator returns a puzzle whose grid holds, i unit steps
\* from each placement's start, exactly the upper-cased i-th letter of its word.
C1_GridEncodesEveryWord ==
    (Validated /\ ValidCandidate(data, size)) =>
        /\ result.kind = "ok"
        /\ \A k \in DOMAIN data.solution :
              \A i \in 0..(Len(data.solution[k].word) - 1) :
                 LET cell == StepCell(data.solution[k], i) IN
                 /\ cell[1] \in 0..(size - 1) /\ cell[2] \in 0..(size - 1)
                 /\ result.puzzle.grid[cell[1] + 1][cell[2] + 1]
                       = ToUpperCase(CharAt(data.solution[k].word, i))

\* C2: repair is idempotent: validating a returned puzzle again returns, and
\* returns the same grid, solution and wordsUsed.
C2_RepairIdempotent ==
    vpc = "revalidated" => (again.kind = "ok" /\ again.puzzle = result.puzzle)

IntersectionNamed(solution, err) ==
    \E k1 \in DOMAIN solution, k2 \in DOMAIN solution :
        /\ k1 < k2
        /\ err.word = solution[k2].word
        /\ err.other = solution[k1].word
        /\ <<err.row - 1, err.col - 1>> \in ClaimedCells(solution[k1]) \cap ClaimedCells(solution[k2])

HasCornerStart(solution) == \E k \in DOMAIN solution : StartsAtCorner(solution[k])
FirstCornerStart(solution) ==
    CHOOSE k \in DOMAIN solution :
        StartsAtCorner(solution[k]) /\ \A j \in 1..(k - 1) : ~StartsAtCorner(solution[j])

\* The placements before index k all pass: checks, walk inside, no shared cell.
PrefixPasses(d, n, k) ==
    /\ \A j \in 1..(k - 1) :
          PlacementPasses(d.solution[j], d.wordsUsed, n) /\ WalkInside(d.solution[j], n)
    /\ ~SomeShare(SubSeq(d.solution, 1, k - 1))

\* C4 as claimed: a placement starting at (0,0), wherever it sits in the
\* list, makes the validator fail with the corner error naming that word.
C4_AlwaysCornerError ==
    (Validated /\ HasCornerStart(data.solution)) =>
        /\ result.kind = "corner"
        /\ \E k \in DOMAIN data.solution :
              StartsAtCorner(data.solution[k]) /\ result.word = data.solution[k].word

\* C4 amended: a candidate with a placement starting at (0,0) never yields a
\* puzzle; the failure is the corner error naming that word when the grid is
\* well shaped and every placement before the first corner start passes.
C4_CornerStartRejected ==
    (Validated /\ HasCornerStart(data.solution)) =>
        /\ result.kind # "ok"
        /\ (WellShaped(data.grid, size)
              /\ PrefixPasses(data, size, FirstCornerStart(data.solution)))
           => /\ result.kind = "corner"
              /\ result.word = data.solution[FirstCornerStart(data.solution)].word

\* C4 witness: the corner start is the second placement and is reported.
C4_Witness ==
    /\ vpc = "validated"
    /\ Len(data.solution) = 2
    /\ ~StartsAtCorner(data.solution[1])
    /\ StartsAtCorner(data.solution[2])
    /\ result.kind = "corner"
    /\ result.word = data.solution[2].word

\* C5: a grid that has not exactly size rows, or a row without exactly size
\* entries, or an entry that is not a one-character string, fails with the
\* shape error, whatever the placements are.
C5_ShapeErrorFirst ==
    (Validated /\ ~WellShaped(data.grid, size)) => result.kind = "shape"

\* C5 witness: an ill-shaped grid whose only placement starts at the corner.
C5_Witness ==
    /\ vpc = "validated"
    /\ ~WellShaped(data.grid, size)
    /\ Len(data.grid) = size
    /\ Len(data.solution) = 1
    /\ StartsAtCorner(data.solution[1])
    /\ result.kind = "shape"

\* C6: every placement of a returned puzzle is a straight line (horizontal,
\* vertical or diagonal) whose walk of word.length unit steps ends on the
\* declared end cell.
C6_ReturnedPlacementsStraight ==
    (Validated /\ result.kind = "ok") =>
        \A k \in DOMAIN result.puzzle.solution : StraightLine(result.puzzle.solution[k])

\* C7: the validator returns a puzzle or fails with a classified validation
\* error; it never fails otherwise, in particular not by reading a grid cell
\* outside the grid during the walk.
C7_OnlyClassifiedOutcomes ==
    Validated => result.kind \in {"ok"} \cup ClassifiedErrors

\* C8: geometry law: a well-shaped candidate holding a placement with
\* max(|dRow|,|dCol|)+1 different from the word's length is rejected, so every
\* placement of a returned puzzle satisfies the law.
C8_GeometryLaw ==
    /\ (Validated /\ WellShaped(data.grid, size)
          /\ \E k \in DOMAIN data.solution : ~GeometryLaw(data.solution[k]))
       => result.kind # "ok"
    /\ (Validated /\ result.kind = "ok")
       => \A k \in DOMAIN result.puzzle.solution : GeometryLaw(result.puzzle.solution[k])

\* C8 witness: the second placement alone breaks the law and is rejected for it.
C8_Witness ==
    /\ vpc = "validated"
    /\ Len(data.solution) = 2
    /\ GeometryLaw(data.solution[1])
    /\ ~GeometryLaw(data.solution[2])
    /\ result.kind = "length"
    /\ result.word = data.solution[2].word
    /\ result.row # result.col

----------------------------------------------------------------------------
(* Properties of generateWordSearch *)

Finished == pc \in {"Succeeded", "Exhausted"}

\* The counters of a call in which every settled attempt so far failed.
C9_Counts ==
    /\ calls <= 3
    /\ pc = "Exhausted" => (calls = 3 /\ warnings = 3 /\ returned = None)
    /\ warnings = 3 => pc = "Exhausted"
    /\ pc = "awaiting" => (warnings < 3 /\ calls = warnings + 1)

\* C9: when every attempt fails, whatever the mix of failures, the generator
\* is invoked exactly 3 times and never a 4th, the call ends in the terminal
\* exhausted-retries error, every failure of attempts 1 and 2 is followed by
\* another attempt, and if every generator call completes a call that was
\* made ends Succeeded or Exhausted.
C9_ThreeAttemptsThenExhausted == []C9_Counts /\ (pc = "awaiting" ~> Finished)

\* C9 witness: a transport failure, then others, the third a shape error.
C9_Witness ==
    /\ pc = "Exhausted"
    /\ calls = 3
    /\ warnings = 3
    /\ response.kind = "puzzle"
    /\ lastError.kind = "shape"

\* The returned grid spells every placement's word up to letter case.
SpellsEveryWord(puzzle) ==
    \A k \in DOMAIN puzzle.solution :
       \A i \in 0..(Len(puzzle.solution[k].word) - 1) :
          LET cell == StepCell(puzzle.solution[k], i) IN
          ToUpperCase(puzzle.grid[cell[1] + 1][cell[2] + 1])
             = ToUpperCase(CharAt(puzzle.solution[k].word, i))

\* C10: the call fails only after three failed attempts; a response that
\* passes validation ends the call with that response's validated and
\* corrected puzzle and no further generator call; attempt n+1 starts only
\* after attempt n failed, with at most one generator call outstanding; no
\* puzzle reaches the caller without passing validation completely.
C10_SuccessReturnsValidated ==
    /\ outstanding \in {0, 1}
    /\ outstanding = 1 <=> pc = "awaiting"
    /\ calls <= warnings + 1
    /\ pc = "Exhausted" => warnings = 3
    /\ returned # None => pc = "Succeeded"
    /\ pc = "Succeeded" =>
          /\ calls = warnings + 1
          /\ calls = attempt
          /\ response.kind = "puzzle"
          /\ WellShaped(response.data.grid, size)
          /\ \A k \in DOMAIN response.data.solution :
                /\ PlacementPasses(response.data.solution[k], response.data.wordsUsed, size)
                /\ WalkInside(response.data.solution[k], size)
          /\ ~SomeShare(response.data.solution)
          /\ returned.solution = response.data.solution
          /\ returned.wordsUsed = response.data.wordsUsed
          /\ SpellsEveryWord(returned)

\* C10 witness: the second attempt succeeds with a repaired grid.
C10_Witness ==
    /\ pc = "Succeeded"
    /\ warnings = 1
    /\ calls = 2
    /\ returned.grid # response.data.grid

----------------------------------------------------------------------------
(* Frame of validateAndCorrectPuzzleData *)

\* Cell (r, c) of the candidate lies on placement k at index i and holds that
\* letter up to case.
MatchesAt(d, r, c) ==
    \E k \in DOMAIN d.solution :
       \E i \in 0..(Len(d.solution[k].word) - 1) :
          /\ StepCell(d.solution[k], i) = <<r, c>>
          /\ ToUpperCase(d.grid[r + 1][c + 1]) = ToUpperCase(CharAt(d.solution[k].word, i))

OnSomePlacement(d, r, c) ==
    \E k \in DOMAIN d.solution : <<r, c>> \in ClaimedCells(d.solution[k])

\* The returned puzzle differs from the candidate at most in placement cells
\* whose letter did not match.
C11_OnlyMismatchesChange ==
    (Validated /\ result.kind = "ok") =>
        /\ result.puzzle.solution = data.solution
        /\ result.puzzle.wordsUsed = data.wordsUsed
        /\ Len(result.puzzle.grid) = Len(data.grid)
        /\ \A r \in 0..(Len(data.grid) - 1) :
              /\ Len(result.puzzle.grid[r + 1]) = Len(data.grid[r + 1])
              /\ \A c \in 0..(Len(data.grid[r + 1]) - 1) :
                    (~OnSomePlacement(data, r, c) \/ MatchesAt(data, r, c))
                       => result.puzzle.grid[r + 1][c + 1] = data.grid[r + 1][c + 1]

\* C11: on success the returned solution and wordsUsed are the candidate's
\* and the returned grid equals the candidate grid at every cell off the
\* placements and at every placement cell that already matched up to case;
\* no call, returning or failing part-way, modifies the candidate passed in.
C11_FrameOfValidation == []C11_OnlyMismatchesChange /\ [][data' = data]_vars

\* C11 witness: a returned puzzle with a repaired cell and with a lower-case
\* cell that matched and was kept.
C11_Witness ==
    /\ vpc = "validated"
    /\ result.kind = "ok"
    /\ result.puzzle.grid # data.grid
    /\ \E r \in 0..(size - 1), c \in 0..(size - 1) :
          /\ MatchesAt(data, r, c)
          /\ ToUpperCase(data.grid[r + 1][c + 1]) # data.grid[r + 1][c + 1]
          /\ result.puzzle.grid[r + 1][c + 1] = data.grid[r + 1][c + 1]

----------------------------------------------------------------------------
(* The overlay walk against the validator's walk *)

\* The cells cellMap holds for the placement with 0-based index k.
Highlighted(k) == { <<e.row, e.col>> : e \in { x \in overlay.cellMap : x.index = k } }

\* C12: for every returned puzzle the overlay walk of each placement ends,
\* and the cells it highlights are exactly the cells the validator claimed
\* for that placement.  A walk over distinct cells ends only if it stays on
\* the finitely many claimed cells, so: the walk never stands on or
\* highlights a cell the validator did not claim for the placement, and once
\* the callback has returned every placement has all its claimed cells.
C12_OverlayWalksClaimedCells ==
    /\ \A e \in overlay.cellMap :
          <<e.row, e.col>> \in ClaimedCells(result.puzzle.solution[e.index + 1])
    /\ overlay.pc = "walking" =>
          <<overlay.r, overlay.c>> \in ClaimedCells(result.puzzle.solution[overlay.index + 1])
    /\ overlay.pc = "done" =>
          \A k \in 0..(Len(result.puzzle.solution) - 1) :
             Highlighted(k) = ClaimedCells(result.puzzle.solution[k + 1])

====
